---- MODULE Spec2Model ----
(***************************************************************************)
(* AutoProject: extraction of the code blocks of a markdown document into  *)
(* a CMake project (src/AutoProject.cpp).                                  *)
(*                                                                         *)
(* A character is a one-character string, a line is a sequence of          *)
(* characters (std::string), a file is a sequence of lines.  String        *)
(* positions are 0-based as in the code; sequences are 1-based.            *)
(***************************************************************************)
EXTENDS Integers, Sequences, FiniteSets, TLC

\* ------------------------------------------------------------ constants

\* static constexpr unsigned indentLevel{4};
indentLevel == 4
\* static constexpr unsigned delimLength{3};
delimLength == 3
\* The character U+0060 (grave accent), which a string of this module
\* cannot hold.
backtick == "GRAVE"
\* std::string::npos, size_t(-1): above every position of every string.
npos == 2 ^ 30

\* ---------------------------------------------------- string primitives

\* isspace() in the "C" locale, on the characters a line can hold.
isspace(ch) == ch \in {" ", "\t"}

\* std::string(n, ' ')
RECURSIVE Spaces(_)
Spaces(n) == IF n = 0 THEN <<>> ELSE <<" ">> \o Spaces(n - 1)

\* std::reverse(str.begin(), str.end())
RECURSIVE Reverse(_)
Reverse(str) ==
    IF str = <<>> THEN <<>> ELSE Append(Reverse(Tail(str)), Head(str))

\* str.find_first_not_of(ch): 0-based position of the first other character.
find_first_not_of(str, ch) ==
    IF \A i \in 1..Len(str) : str[i] = ch
    THEN npos
    ELSE (CHOOSE i \in 1..Len(str) :
              str[i] # ch /\ \A j \in 1..(i - 1) : str[j] = ch) - 1

\* str.find(pattern) == 0
StartsWith(str, pattern) ==
    /\ Len(pattern) <= Len(str)
    /\ SubSeq(str, 1, Len(pattern)) = pattern

\* loc{str.rfind(pattern)}; loc != npos && loc == str.size() - pattern.size()
EndsWith(str, pattern) ==
    /\ Len(pattern) <= Len(str)
    /\ SubSeq(str, Len(str) - Len(pattern) + 1, Len(str)) = pattern

\* ------------------------------------------------------ line predicates

isNonEmptyIndented(line) ==
    LET indent == find_first_not_of(line, " ")
    IN  indent >= indentLevel /\ indent # npos

isIndentedOrEmpty(line) ==
    LET indent == find_first_not_of(line, " ")
    IN  indent >= indentLevel

isEmptyOrUnderline(line) ==
    LET indent == find_first_not_of(line, "-")
    IN  line = <<>> \/ indent = npos

isDelimited(line) ==
    IF line = <<>> \/ (line[1] # backtick /\ line[1] # "~")
    THEN FALSE
    ELSE LET backtickDelim == find_first_not_of(line, backtick)
             tildeDelim    == find_first_not_of(line, "~")
         IN  backtickDelim >= delimLength \/ tildeDelim >= delimLength

replaceLeadingTabs(line) ==
    LET tabcount == IF \A i \in 1..Len(line) : line[i] = "\t"
                    THEN Len(line)
                    ELSE find_first_not_of(line, "\t")
    IN  IF tabcount > 0
        THEN Spaces(indentLevel * tabcount) \o SubSeq(line, tabcount + 1, Len(line))
        ELSE line

\* What emit() sends to the file for a line (the '\n' ends the line).
emit(line) ==
    IF Len(line) < indentLevel
    THEN line
    ELSE IF line[1] = " "
         THEN SubSeq(line, indentLevel + 1, Len(line))
         ELSE SubSeq(line, 2, Len(line))

\* What emitVerbatim() sends to the file for a line.
emitVerbatim(line) == line

\* ------------------------------------------------------ caption trimming

\* trim(std::string&, std::string_view)
trim(str, pattern) ==
    IF StartsWith(str, pattern)
    THEN SubSeq(str, Len(pattern) + 1, Len(str))
    ELSE str

\* rtrim(std::string&, std::string_view)
rtrim(str, pattern) ==
    IF EndsWith(str, pattern)
    THEN SubSeq(str, 1, Len(str) - Len(pattern))
    ELSE str

\* The loop of trim(std::string&, char): how far the iterator advances.  It tests
\* *it before it != str.end().
trimSkip(str, ch) ==
    IF \A i \in 1..Len(str) : str[i] = ch \/ isspace(str[i])
    THEN Len(str)
    ELSE (CHOOSE i \in 1..Len(str) :
              /\ ~(str[i] = ch \/ isspace(str[i]))
              /\ \A j \in 1..(i - 1) : str[j] = ch \/ isspace(str[j])) - 1

\* trim(std::string&, char): nothing is erased when the iterator reached str.end().
trimCh(str, ch) ==
    LET n == trimSkip(str, ch)
    IN  IF n # Len(str) THEN SubSeq(str, n + 1, Len(str)) ELSE str

\* rtrim(std::string&, char)
rtrimCh(str, ch) == Reverse(trimCh(Reverse(str), ch))

\* trim(std::string&, char) dereferences str.end() when every character of
\* str is ch or a space (and when str is empty): undefined behaviour.
trimChReadsEnd(str, ch) == trimSkip(str, ch) = Len(str)

\* The ten steps of trimExtras(), in order: TrimSteps(line)[k] is the line
\* after step k.
TrimSteps(line) ==
    LET s1  == trimCh(line, "#")
        s2  == rtrimCh(s1, "#")
        s3  == trimCh(s2, "*")
        s4  == rtrimCh(s3, "*")
        s5  == trim(s4, <<"<", "b", ">">>)
        s6  == rtrim(s5, <<"<", "/", "b", ">">>)
        s7  == trimCh(s6, "\"")
        s8  == rtrimCh(s7, "\"")
        s9  == rtrimCh(s8, "-")
        s10 == rtrimCh(s9, ":")
    IN  <<s1, s2, s3, s4, s5, s6, s7, s8, s9, s10>>

trimExtras(line) ==
    IF line = <<>> THEN line ELSE TrimSteps(line)[10]

\* Whether one of the character trims of trimExtras(line) reads *str.end().
trimExtrasReadsEnd(line) ==
    /\ line # <<>>
    /\ LET s == TrimSteps(line)
       IN  \/ trimChReadsEnd(line, "#")
           \/ trimChReadsEnd(Reverse(s[1]), "#")
           \/ trimChReadsEnd(s[2], "*")
           \/ trimChReadsEnd(Reverse(s[3]), "*")
           \/ trimChReadsEnd(s[6], "\"")
           \/ trimChReadsEnd(Reverse(s[7]), "\"")
           \/ trimChReadsEnd(Reverse(s[8]), "-")
           \/ trimChReadsEnd(Reverse(s[9]), ":")

\* fs::path(p).filename(): what follows the last '/'.
filename(p) ==
    LET slashes == {i \in 1..Len(p) : p[i] = "/"}
    IN  IF slashes = {}
        THEN p
        ELSE SubSeq(p, (CHOOSE i \in slashes : \A j \in slashes : j <= i) + 1, Len(p))

\* fs::path(p).extension(): from the last '.' of the filename, empty for ".",
\* ".." and a filename whose only '.' is its first character.
extension(p) ==
    LET f    == filename(p)
        dots == {i \in 1..Len(f) : f[i] = "."}
        last == CHOOSE i \in dots : \A j \in dots : j <= i
    IN  IF dots = {} \/ f = <<".">> \/ f = <<".", ".">> THEN <<>>
        ELSE IF last = 1 THEN <<>>
        ELSE SubSeq(f, last, Len(f))

isSourceExtension(ext) ==
    ext \in { <<".", "c", "p", "p">>, <<".", "c">>, <<".", "h">>,
              <<".", "h", "p", "p">> }

\* isSourceFilename(line) trims line in place (trimExtras) and tests the
\* result; the trimmed line is trimExtras(line).
isSourceFilename(line) == isSourceExtension(extension(trimExtras(line)))

\* ------------------------------------------------------------ rule table

\* The table of checkRules().  Every regular expression of the table has
\* the form \s*#include\s*<H>; re is the set of alternatives of H (two for
\* the optional group of the first row), in which '.' is the wildcard it is
\* in the source.  cmake is the snippet as the lines it holds, libraries the
\* library string as its space-separated words.
rules ==
  <<
    [ re |-> { <<"e", "x", "p", "e", "r", "i", "m", "e", "n", "t", "a", "l", "/", "f", "i", "l", "e", "s", "y", "s", "t", "e", "m">>,
               <<"f", "i", "l", "e", "s", "y", "s", "t", "e", "m">> },
      cmake |-> <<  >>,
      libraries |-> << "stdc++fs" >> ],
    [ re |-> { <<"t", "h", "r", "e", "a", "d">> },
      cmake |-> << "find_package(Threads REQUIRED)" >>,
      libraries |-> << "${CMAKE_THREAD_LIBS_INIT}" >> ],
    [ re |-> { <<"f", "u", "t", "u", "r", "e">> },
      cmake |-> << "find_package(Threads REQUIRED)" >>,
      libraries |-> << "${CMAKE_THREAD_LIBS_INIT}" >> ],
    [ re |-> { <<"S", "F", "M", "L", "/", "G", "r", "a", "p", "h", "i", "c", "s", ".", "h", "p", "p">> },
      cmake |-> << "find_package(SFML REQUIRED COMPONENTS System Window Graphics)", "include_directories(${SFML_INCLUDE_DIR})" >>,
      libraries |-> << "${SFML_LIBRARIES}" >> ],
    [ re |-> { <<"G", "L", "/", "g", "l", "e", "w", ".", "h">> },
      cmake |-> << "find_package(GLEW REQUIRED)" >>,
      libraries |-> << "${GLEW_LIBRARIES}" >> ],
    [ re |-> { <<"G", "L", "/", "g", "l", "u", "t", ".", "h">> },
      cmake |-> << "find_package(GLUT REQUIRED)", "find_package(OpenGL REQUIRED)" >>,
      libraries |-> << "${OPENGL_LIBRARIES}", "${GLUT_LIBRARIES}" >> ],
    [ re |-> { <<"O", "p", "e", "n", "G", "L", "/", "g", "l", ".", "h">> },
      cmake |-> << "find_package(OpenGL REQUIRED)" >>,
      libraries |-> << "${OPENGL_LIBRARIES}" >> ],
    [ re |-> { <<"S", "D", "L", "2", "/", "S", "D", "L", ".", "h">> },
      cmake |-> << "find_package(SDL2 REQUIRED)" >>,
      libraries |-> << "${SDL2_LIBRARIES}" >> ],
    [ re |-> { <<"S", "D", "L", "2", "/", "S", "D", "L", "_", "t", "t", "f", ".", "h">> },
      cmake |-> << "find_package(SDL2_ttf REQUIRED)" >>,
      libraries |-> << "${SDL2_TTF_LIBRARIES}" >> ],
    [ re |-> { <<"G", "L", "F", "W", "/", "g", "l", "f", "w", "3", ".", "h">> },
      cmake |-> << "find_package(glfw3 REQUIRED)" >>,
      libraries |-> << "glfw" >> ],
    [ re |-> { <<"b", "o", "o", "s", "t", "/", "r", "e", "g", "e", "x", ".", "h", "p", "p">> },
      cmake |-> << "find_package(Boost REQUIRED COMPONENTS regex)" >>,
      libraries |-> << "${Boost_LIBRARIES}" >> ],
    [ re |-> { <<"p", "n", "g", ".", "h">> },
      cmake |-> << "find_package(PNG REQUIRED)" >>,
      libraries |-> << "${PNG_LIBRARIES}" >> ],
    [ re |-> { <<"n", "c", "u", "r", "s", "e", "s", ".", "h">> },
      cmake |-> << "find_package(Curses REQUIRED)" >>,
      libraries |-> << "${CURSES_LIBRARIES}" >> ],
    [ re |-> { <<"S", "D", "L", "2", ".", "S", "D", "L", ".", "h">> },
      cmake |-> << "include(FindPkgConfig)", "PKG_SEARCH_MODULE(SDL2 REQUIRED sdl2)", "INCLUDE_DIRECTORIES(${SDL2_INCLUDE_DIRS})" >>,
      libraries |-> << "${SDL2_LIBRARIES}" >> ],
    [ re |-> { <<"Q", "S", "t", "r", "i", "n", "g">> },
      cmake |-> << "find_package(Qt5Widgets)", "set(CMAKE_AUTOMOC ON)", "set(CMAKE_AUTOUIC ON)", "set(CMAKE_INCLUDE_CURRENT_DIR ON)" >>,
      libraries |-> << "Qt5::Widgets" >> ],
    [ re |-> { <<"o", "p", "e", "n", "s", "s", "l", "/", "s", "s", "l", ".", "h">> },
      cmake |-> << "find_package(OpenSSL REQUIRED)" >>,
      libraries |-> << "${OPENSSL_LIBRARIES}" >> ]
  >>

\* Whether the header pattern pat matches line at (1-based) position i.
HeaderAt(line, i, pat) ==
    /\ i + Len(pat) - 1 <= Len(line)
    /\ \A k \in 1..Len(pat) : pat[k] = "." \/ line[i + k - 1] = pat[k]

\* std::regex_search(line, sm, rule.re): "#include", any white space, then
\* <H>, anywhere in the line (the leading \s* may match nothing).
regex_search(line, re) ==
    \E i \in {k \in 1..Len(line) : line[k] = "#"} :
        \E lt \in {k \in (i + 8)..Len(line) : line[k] = "<"} :
            /\ SubSeq(line, i, i + 7) = <<"#", "i", "n", "c", "l", "u", "d", "e">>
            /\ \A k \in (i + 8)..(lt - 1) : isspace(line[k])
            /\ \E pat \in re :
                   /\ HeaderAt(line, lt + 1, pat)
                   /\ lt + Len(pat) + 1 <= Len(line)
                   /\ line[lt + Len(pat) + 1] = ">"

\* checkRules leaving its loop at the first row that matches.
checkRules_FirstMatchOnly(line) ==
    LET M == {r \in 1..Len(rules) : regex_search(line, rules[r].re)}
    IN  {r \in M : \A q \in M : r <= q}

\* The rows of the table that checkRules(line) finds matching: every row is
\* tested, there is no early exit.
checkRules(line) == {r \in 1..Len(rules) : regex_search(line, rules[r].re)}

\* S.emplace(x) on one of the containers srcnames, extraRules, libraries:
\* a set, which holds an element once.
emplace(S, x) == S \cup {x}

\* S after emplace(x) for every x of X.
RECURSIVE emplaceAll(_, _)
emplaceAll(S, X) ==
    IF X = {} THEN S
    ELSE LET x == CHOOSE y \in X : TRUE
         IN  emplaceAll(emplace(S, x), X \ {x})

\* extraRules and libraries after checkRules(line).
addRules(extra, line) ==
    emplaceAll(extra, {rules[r].cmake : r \in checkRules(line)})

\* checkRules with "libraries.emplace(rule.libraries)" left out.
addLibraries_Skip(libs, line) == libs

addLibraries(libs, line) ==
    emplaceAll(libs, {rules[r].libraries : r \in checkRules(line)})

\* ---------------------------------------------------------------- bounds

\* Longest document read.
MaxLines == 4
\* Most runs of the program on one document (open() followed by createProject()).
MaxRuns == 2
\* Most output files whose open fails in one run.
MaxOpenFail == 1

\* ----------------------------------------------------------------- state

VARIABLES
    doc,             \* the lines of the input document read so far
    pos,             \* lines the current run has read from the input
    run,             \* number of the current run on this document
    pc,              \* "scan", "done" (createProject returned) or how it ended
    overwrite,       \* the argument of createProject
    ub,              \* what a read of *str.end() does in this build
    prevline, inIndentedFile, inDelimitedFile, firstFile,
    srcfileOpen,     \* srcfile.is_open()
    srcfilename,     \* below srcdir
    srcnames, extraRules, libraries,
    result,          \* the value createProject returned (when pc = "done")
    disk,            \* directories and files under the project directory
    diskAtStart,     \* disk when the current run started
    blocks,          \* the blocks this run opened, with what it wrote to each
    attempts         \* the srcfile.open() calls of this run

vars == <<doc, pos, run, pc, overwrite, ub, prevline, inIndentedFile,
          inDelimitedFile, firstFile, srcfileOpen, srcfilename, srcnames,
          extraRules, libraries, result, disk, diskAtStart, blocks, attempts>>

\* "main.cpp", the name of a block without a caption.
main_cpp == <<"m", "a", "i", "n", ".", "c", "p", "p">>

\* An empty working directory.
EmptyDisk ==
    [dirs |-> {}, files |-> <<>>, srccmake |-> <<>>, topcmake |-> FALSE,
     mdcopy |-> FALSE]

\* How a run can end.
Terminal == {"done", "throw_exists", "throw_mkdir", "throw_fs", "throw_copy", "abort"}

\* Whether the operating system lets the directories be created.
Env == {"ok", "fail"}

\* The state of a newly constructed AutoProject at the start of createProject.
Fresh ==
    /\ pos = 0
    /\ pc = "scan"
    /\ prevline = <<>>
    /\ inIndentedFile = FALSE
    /\ inDelimitedFile = FALSE
    /\ firstFile = TRUE
    /\ srcfileOpen = FALSE
    /\ srcfilename = <<>>
    /\ srcnames = {}
    /\ extraRules = {}
    /\ libraries = {}
    /\ result = FALSE
    /\ blocks = <<>>
    /\ attempts = <<>>

\* First run, in a directory that holds no project, overwrite not asked for.
Init ==
    /\ Fresh
    /\ doc = <<>>
    /\ run = 1
    /\ overwrite = FALSE
    /\ ub = "unknown"
    /\ disk = EmptyDisk
    /\ diskAtStart = EmptyDisk

\* First run with either value of overwrite, the project directory absent
\* or already there (empty).
InitRerun ==
    /\ Fresh
    /\ doc = <<>>
    /\ run = 1
    /\ overwrite \in BOOLEAN
    /\ ub = "unknown"
    /\ \E d \in {{}, {"root"}} :
           /\ disk = [EmptyDisk EXCEPT !.dirs = d]
           /\ diskAtStart = [EmptyDisk EXCEPT !.dirs = d]

\* ------------------------------------------------------------ operations

\* The order in which a range-for visits the elements of one of the sets
\* srcnames, extraRules, libraries.
RECURSIVE Iterate(_)
Iterate(S) ==
    IF S = {} THEN <<>>
    ELSE LET x == CHOOSE y \in S : TRUE IN <<x>> \o Iterate(S \ {x})

\* makeTree without the test "exists(projname) && !overwrite".
makeTree_NoExistsCheck(dirs, ow, env) ==
    IF env = "fail"
    THEN [pc |-> "throw_fs", dirs |-> dirs]
    ELSE IF "src" \in dirs
    THEN [pc |-> "throw_mkdir", dirs |-> dirs]
    ELSE [pc |-> "scan", dirs |-> dirs \cup {"root", "src", "build"}]

\* makeTree(overwrite) on directories dirs: how it ends ("scan": it returns)
\* and the directories afterwards.
makeTree(dirs, ow, env) ==
    IF "root" \in dirs /\ ~ow
    THEN [pc |-> "throw_exists", dirs |-> dirs]
    ELSE IF env = "fail"
    THEN [pc |-> "throw_fs", dirs |-> dirs]
    ELSE IF "src" \in dirs
    THEN [pc |-> "throw_mkdir", dirs |-> dirs]
    ELSE [pc |-> "scan", dirs |-> dirs \cup {"root", "src", "build"}]

\* What writeSrcLevel() writes: the snippets, the file names and the
\* libraries, each in the order of its loop.
writeSrcLevel ==
    [rules |-> Iterate(extraRules), sources |-> Iterate(srcnames),
     libs |-> Iterate(libraries)]

\* The lines "srccmake << rule << '\n'" writes for the snippets of cm.
RECURSIVE RuleLines(_)
RuleLines(entries) ==
    IF entries = <<>> THEN <<>>
    ELSE Head(entries) \o <<"">> \o RuleLines(Tail(entries))

\* The words "srccmake << lib << ' '" writes on the target_link_libraries line.
RECURSIVE LinkWords(_)
LinkWords(entries) ==
    IF entries = <<>> THEN <<>>
    ELSE Head(entries) \o LinkWords(Tail(entries))

\* What a read of *str.end() in trimExtras(line) can do: the terminating
\* '\0' is read and the loop ends ("benign"), or a checked build aborts.
UBOutcomes(line) ==
    IF trimExtrasReadsEnd(line)
    THEN (IF ub = "unknown" THEN {"benign", "abort"} ELSE {ub})
    ELSE {"none"}

\* getline(in, line): the first run reads a new document, a later run the
\* same document again.
getline(raw) ==
    /\ pc = "scan"
    /\ IF run = 1
       THEN Len(doc) < MaxLines /\ doc' = Append(doc, raw)
       ELSE pos < Len(doc) /\ raw = doc[pos + 1] /\ doc' = doc
    /\ pos' = pos + 1

\* A line is written to the open file.
WriteLine(text) ==
    /\ disk' = [disk EXCEPT !.files[srcfilename] = Append(@, text)]
    /\ blocks' = [blocks EXCEPT ![Len(blocks)].lines = Append(@, text),
                                ![Len(blocks)].srcs = Append(@, pos + 1)]

\* The open file is closed by the line just read.
CloseBlock ==
    /\ srcfileOpen' = FALSE
    /\ blocks' = [blocks EXCEPT ![Len(blocks)].close = pos + 1]

\* The process is aborted at a read of *str.end().
Crash ==
    /\ pc' = "abort"
    /\ ub' = "abort"
    /\ UNCHANGED <<prevline, inIndentedFile, inDelimitedFile, firstFile,
                   srcfileOpen, srcfilename, srcnames, extraRules, libraries,
                   disk, blocks, attempts>>

\* makeTree() for the first file, then srcfile.open(name) and, when the
\* stream is good, the first line (an indented block's) and the bookkeeping.
OpenFile(name, kind, first, ok, env) ==
    LET mt == IF firstFile
              THEN makeTree(disk.dirs, overwrite, env)
              ELSE [pc |-> "scan", dirs |-> disk.dirs]
        failed == Cardinality({i \in 1..Len(attempts) : ~attempts[i].ok})
        text == IF first = <<>> THEN <<>> ELSE <<emit(first[1])>>
    IN  IF mt.pc # "scan"
        THEN /\ pc' = mt.pc
             /\ disk' = [disk EXCEPT !.dirs = mt.dirs]
             /\ UNCHANGED <<inIndentedFile, inDelimitedFile, firstFile,
                            srcfileOpen, srcfilename, srcnames, extraRules,
                            libraries, blocks, attempts>>
        ELSE /\ ok \/ failed < MaxOpenFail
             /\ pc' = "scan"
             /\ firstFile' = FALSE
             /\ srcfilename' = name
             /\ attempts' = Append(attempts, [at |-> pos + 1, name |-> name, ok |-> ok])
             /\ srcfileOpen' = ok
             /\ IF ok
                THEN /\ disk' = [disk EXCEPT !.dirs = mt.dirs,
                                             !.files = (name :> text) @@ @]
                     /\ srcnames' = emplace(srcnames, filename(name))
                     /\ blocks' = Append(blocks,
                            [name |-> name, kind |-> kind, open |-> pos + 1,
                             close |-> 0, lines |-> text,
                             srcs |-> IF first = <<>> THEN <<>> ELSE <<pos + 1>>])
                     /\ inIndentedFile' = (kind = "indented")
                     /\ inDelimitedFile' = (kind = "fenced")
                     /\ extraRules' = IF first = <<>> THEN extraRules
                                      ELSE addRules(extraRules, first[1])
                     /\ libraries' = IF first = <<>> THEN libraries
                                     ELSE addLibraries(libraries, first[1])
                ELSE /\ disk' = [disk EXCEPT !.dirs = mt.dirs]
                     /\ UNCHANGED <<srcnames, blocks, inIndentedFile,
                                    inDelimitedFile, extraRules, libraries>>

\* --------------------------------------------------------------- actions

\* The loop body with inIndentedFile set.
IndentedLine(raw) ==
    /\ getline(raw)
    /\ inIndentedFile
    /\ LET line == replaceLeadingTabs(raw)
       IN  IF ~isIndentedOrEmpty(line)
           THEN /\ prevline' = line
                /\ CloseBlock
                /\ inIndentedFile' = FALSE
                /\ UNCHANGED <<extraRules, libraries, disk>>
           ELSE /\ extraRules' = addRules(extraRules, line)
                /\ libraries' = addLibraries(libraries, line)
                /\ WriteLine(emit(line))
                /\ UNCHANGED <<prevline, srcfileOpen, inIndentedFile>>
    /\ UNCHANGED <<run, pc, overwrite, ub, inDelimitedFile, firstFile,
                   srcfilename, srcnames, result, diskAtStart, attempts>>

\* The loop body with inDelimitedFile set.
DelimitedLine(raw) ==
    /\ getline(raw)
    /\ ~inIndentedFile
    /\ inDelimitedFile
    /\ LET line == replaceLeadingTabs(raw)
       IN  IF isDelimited(line)
           THEN /\ prevline' = line
                /\ CloseBlock
                /\ inDelimitedFile' = FALSE
                /\ UNCHANGED <<extraRules, libraries, disk>>
           ELSE /\ extraRules' = addRules(extraRules, line)
                /\ libraries' = addLibraries(libraries, line)
                /\ WriteLine(emitVerbatim(line))
                /\ UNCHANGED <<prevline, srcfileOpen, inDelimitedFile>>
    /\ UNCHANGED <<run, pc, overwrite, ub, inIndentedFile, firstFile,
                   srcfilename, srcnames, result, diskAtStart, attempts>>

\* The delimiter branch taken without the tests of inIndentedFile and
\* inDelimitedFile.
FenceOpener_NoStateTest(raw, ok, env) ==
    /\ getline(raw)
    /\ LET line == replaceLeadingTabs(raw)
       IN  /\ isDelimited(line)
           /\ \E u \in UBOutcomes(prevline) :
                  IF u = "abort"
                  THEN Crash
                  ELSE /\ ub' = IF u = "none" THEN ub ELSE u
                       /\ prevline' = trimExtras(prevline)
                       /\ OpenFile(IF isSourceFilename(prevline)
                                   THEN trimExtras(prevline)
                                   ELSE main_cpp,
                                   "fenced", <<>>, ok, env)
    /\ UNCHANGED <<run, overwrite, result, diskAtStart>>

\* The loop body outside a block, on a delimiter line.
FenceOpener(raw, ok, env) ==
    /\ getline(raw)
    /\ ~inIndentedFile
    /\ ~inDelimitedFile
    /\ LET line == replaceLeadingTabs(raw)
       IN  /\ isDelimited(line)
           /\ \E u \in UBOutcomes(prevline) :
                  IF u = "abort"
                  THEN Crash
                  ELSE /\ ub' = IF u = "none" THEN ub ELSE u
                       /\ prevline' = trimExtras(prevline)
                       /\ OpenFile(IF isSourceFilename(prevline)
                                   THEN trimExtras(prevline)
                                   ELSE main_cpp,
                                   "fenced", <<>>, ok, env)
    /\ UNCHANGED <<run, overwrite, result, diskAtStart>>

\* The loop body outside a block, on a non-empty indented line.
IndentedOpener(raw, ok, env) ==
    /\ getline(raw)
    /\ ~inIndentedFile
    /\ ~inDelimitedFile
    /\ LET line == replaceLeadingTabs(raw)
       IN  /\ ~isDelimited(line)
           /\ isNonEmptyIndented(line)
           /\ \E u \in UBOutcomes(prevline) :
                  IF u = "abort"
                  THEN Crash
                  ELSE /\ ub' = IF u = "none" THEN ub ELSE u
                       /\ prevline' = trimExtras(prevline)
                       /\ IF isSourceFilename(prevline)
                          THEN OpenFile(trimExtras(prevline), "indented",
                                        <<line>>, ok, env)
                          ELSE IF firstFile /\ line # <<>>
                          THEN OpenFile(main_cpp, "indented", <<line>>, ok, env)
                          ELSE UNCHANGED <<pc, inIndentedFile, inDelimitedFile,
                                           firstFile, srcfileOpen, srcfilename,
                                           srcnames, extraRules, libraries,
                                           disk, blocks, attempts>>
    /\ UNCHANGED <<run, overwrite, result, diskAtStart>>

\* The loop body outside a block, on any other line.
TextLine(raw) ==
    /\ getline(raw)
    /\ ~inIndentedFile
    /\ ~inDelimitedFile
    /\ LET line == replaceLeadingTabs(raw)
       IN  /\ ~isDelimited(line)
           /\ ~isNonEmptyIndented(line)
           /\ prevline' = IF ~isEmptyOrUnderline(line) THEN line ELSE prevline
    /\ UNCHANGED <<run, pc, overwrite, ub, inIndentedFile, inDelimitedFile,
                   firstFile, srcfileOpen, srcfilename, srcnames, extraRules,
                   libraries, result, disk, diskAtStart, blocks, attempts>>

\* The end of createProject without the test "!srcnames.empty()" around the
\* writing of the build files and the copy.
EndOfInput_AlwaysWrites ==
    /\ pc = "scan"
    /\ run = 1 \/ pos = Len(doc)
    /\ LET written == [disk EXCEPT !.srccmake = <<writeSrcLevel>>,
                                    !.topcmake = TRUE]
       IN  IF disk.mdcopy
           THEN /\ disk' = written
                /\ pc' = "throw_copy"
                /\ result' = result
           ELSE /\ disk' = [written EXCEPT !.mdcopy = TRUE]
                /\ pc' = "done"
                /\ result' = (srcnames # {})
    /\ srcfileOpen' = FALSE
    /\ UNCHANGED <<doc, pos, run, overwrite, ub, prevline, inIndentedFile,
                   inDelimitedFile, firstFile, srcfilename, srcnames,
                   extraRules, libraries, diskAtStart, blocks, attempts>>

\* getline() fails: the end of createProject, from in.close() on.
EndOfInput ==
    /\ pc = "scan"
    /\ run = 1 \/ pos = Len(doc)
    /\ IF srcnames # {}
       THEN LET written == [disk EXCEPT !.srccmake = <<writeSrcLevel>>,
                                        !.topcmake = TRUE]
            IN  IF disk.mdcopy
                THEN /\ disk' = written
                     /\ pc' = "throw_copy"
                     /\ result' = result
                ELSE /\ disk' = [written EXCEPT !.mdcopy = TRUE]
                     /\ pc' = "done"
                     /\ result' = TRUE
       ELSE /\ disk' = disk
            /\ pc' = "done"
            /\ result' = FALSE
    /\ srcfileOpen' = FALSE
    /\ UNCHANGED <<doc, pos, run, overwrite, ub, prevline, inIndentedFile,
                   inDelimitedFile, firstFile, srcfilename, srcnames,
                   extraRules, libraries, diskAtStart, blocks, attempts>>

\* open(mdFilename) and createProject(ow) again, on the same document.
Reopen(ow) ==
    /\ pc \in Terminal
    /\ run < MaxRuns
    /\ run' = run + 1
    /\ overwrite' = ow
    /\ diskAtStart' = disk
    /\ pos' = 0
    /\ pc' = "scan"
    /\ prevline' = <<>>
    /\ inIndentedFile' = FALSE
    /\ inDelimitedFile' = FALSE
    /\ firstFile' = TRUE
    /\ srcfileOpen' = FALSE
    /\ srcfilename' = <<>>
    /\ srcnames' = {}
    /\ extraRules' = {}
    /\ libraries' = {}
    /\ result' = FALSE
    /\ blocks' = <<>>
    /\ attempts' = <<>>
    /\ UNCHANGED <<doc, ub, disk>>

\* ------------------------------------------------------------ documents

\* The lines documents are made of.

\* the empty line
Blank == <<>>

\* a.cpp
CaptionPlain == <<"a", ".", "c", "p", "p">>

\* **a.h**:
CaptionBoldColon == <<"*", "*", "a", ".", "h", "*", "*", ":">>

\* three grave accents
FenceBackticks == <<backtick, backtick, backtick>>

\* ~~~
FenceTildes == <<"~", "~", "~">>

\* one grave accent
OneBacktick == <<backtick>>

\* x behind four spaces
CodeSpaces == <<" ", " ", " ", " ", "x">>

\* x behind a tab
CodeTab == <<"\t", "x">>

\* x
Text == <<"x">>

\* four spaces
FourSpaces == <<" ", " ", " ", " ">>

\* #include <thread>, indented
IncThread == <<" ", " ", " ", " ", "#", "i", "n", "c", "l", "u", "d", "e", " ", "<", "t", "h", "r", "e", "a", "d", ">">>

\* #include <future>, indented
IncFuture == <<" ", " ", " ", " ", "#", "i", "n", "c", "l", "u", "d", "e", " ", "<", "f", "u", "t", "u", "r", "e", ">">>

\* #include <GL/glut.h>, indented
IncGlut == <<" ", " ", " ", " ", "#", "i", "n", "c", "l", "u", "d", "e", " ", "<", "G", "L", "/", "g", "l", "u", "t", ".", "h", ">">>

\* #include <OpenGL/gl.h>, indented
IncOpenGL == <<" ", " ", " ", " ", "#", "i", "n", "c", "l", "u", "d", "e", " ", "<", "O", "p", "e", "n", "G", "L", "/", "g", "l", ".", "h", ">">>

\* #include <SDL2/SDL.h>, indented
IncSDL == <<" ", " ", " ", " ", "#", "i", "n", "c", "l", "u", "d", "e", " ", "<", "S", "D", "L", "2", "/", "S", "D", "L", ".", "h", ">">>

\* Documents of any of these lines.
Vocab ==
    {Blank, CaptionPlain, CaptionBoldColon, FenceBackticks, FenceTildes,
     OneBacktick, CodeSpaces, CodeTab, Text, FourSpaces}

\* Documents run more than once.
RerunVocab == {CaptionPlain, FenceBackticks, CodeSpaces, Text, FourSpaces}

\* Documents whose code holds #include lines.
RulesVocab ==
    {CaptionPlain, FenceBackticks, Text, IncThread, IncFuture, IncGlut,
     IncOpenGL, IncSDL}

\* Most decorations put on one caption.
MaxDecor == 2

\* File names, one of each recognized extension.
BareNames ==
    { <<"a", ".", "c">>,
      <<"b", ".", "h">>,
      <<"m", ".", "c", "p", "p">>,
      <<"x", ".", "h", "p", "p">> }

\* The decorations of a caption; a heading marker goes on last, in front of
\* the rest of the line.
Kinds == {"bold", "quote", "colon", "dash", "heading"}

\* Caption c with one decoration put on.
Decorate1(c, kind) ==
    CASE kind = "bold" -> <<"*", "*">> \o c \o <<"*", "*">>
      [] kind = "quote" -> <<"\"">> \o c \o <<"\"">>
      [] kind = "colon" -> Append(c, ":")
      [] kind = "dash" -> Append(c, "-")
      [] kind = "heading" -> <<"#", "#", "#", " ">> \o c

\* Caption c with the decorations ks put on, the first innermost.
RECURSIVE Decorate(_, _)
Decorate(c, ks) ==
    IF ks = <<>> THEN c ELSE Decorate(Decorate1(c, Head(ks)), Tail(ks))

\* Up to MaxDecor decorations, each kind at most once, a colon or a dash
\* but not both, the heading marker outermost.
DecorSeqs ==
    {ks \in UNION {[1..n -> Kinds] : n \in 0..MaxDecor} :
        /\ \A i \in 1..Len(ks), j \in 1..Len(ks) : i # j => ks[i] # ks[j]
        /\ \A i \in 1..Len(ks) : ks[i] = "heading" => i = Len(ks)
        /\ ~(\E i \in 1..Len(ks), j \in 1..Len(ks) : ks[i] = "colon" /\ ks[j] = "dash")}

\* A decorated file name as the first line, then fences, code and text.
CaptionVocab ==
    IF pos = 0
    THEN {Decorate(f, ks) : f \in BareNames, ks \in DecorSeqs}
    ELSE {FenceBackticks, CodeSpaces, Text}

\* -------------------------------------------------------- specifications

\* One step of createProject on a document of lines of V.
Next ==
    \/ \E raw \in Vocab : IndentedLine(raw)
    \/ \E raw \in Vocab : DelimitedLine(raw)
    \/ \E raw \in Vocab, ok \in BOOLEAN, env \in Env : FenceOpener(raw, ok, env)
    \/ \E raw \in Vocab, ok \in BOOLEAN, env \in Env : IndentedOpener(raw, ok, env)
    \/ \E raw \in Vocab : TextLine(raw)
    \/ EndOfInput

Spec == Init /\ [][Next]_vars

NextRerun ==
    \/ \E raw \in RerunVocab : IndentedLine(raw)
    \/ \E raw \in RerunVocab : DelimitedLine(raw)
    \/ \E raw \in RerunVocab, ok \in BOOLEAN, env \in Env : FenceOpener(raw, ok, env)
    \/ \E raw \in RerunVocab, ok \in BOOLEAN, env \in Env : IndentedOpener(raw, ok, env)
    \/ \E raw \in RerunVocab : TextLine(raw)
    \/ EndOfInput
    \/ \E ow \in BOOLEAN : Reopen(ow)

SpecRerun == InitRerun /\ [][NextRerun]_vars

NextRules ==
    \/ \E raw \in RulesVocab : IndentedLine(raw)
    \/ \E raw \in RulesVocab : DelimitedLine(raw)
    \/ \E raw \in RulesVocab, ok \in BOOLEAN, env \in Env : FenceOpener(raw, ok, env)
    \/ \E raw \in RulesVocab, ok \in BOOLEAN, env \in Env : IndentedOpener(raw, ok, env)
    \/ \E raw \in RulesVocab : TextLine(raw)
    \/ EndOfInput

SpecRules == Init /\ [][NextRules]_vars

NextCaption ==
    \/ \E raw \in CaptionVocab : IndentedLine(raw)
    \/ \E raw \in CaptionVocab : DelimitedLine(raw)
    \/ \E raw \in CaptionVocab, ok \in BOOLEAN, env \in Env : FenceOpener(raw, ok, env)
    \/ \E raw \in CaptionVocab, ok \in BOOLEAN, env \in Env : IndentedOpener(raw, ok, env)
    \/ \E raw \in CaptionVocab : TextLine(raw)
    \/ EndOfInput

SpecCaption == Init /\ [][NextCaption]_vars

\* ------------------------------------------------------------ properties
\* The terms the properties use, stated on the document and not on the
\* scanner.

\* A delimiter line: it starts with three or more of one fence character.
FenceLine(l) ==
    /\ Len(l) >= 3
    /\ l[1] \in {backtick, "~"}
    /\ l[2] = l[1]
    /\ l[3] = l[1]

\* A line made of one or two fence characters only: no delimiter line.
ShortFence(l) ==
    /\ Len(l) \in {1, 2}
    /\ \A k \in 1..Len(l) : l[k] = l[1]
    /\ l[1] \in {backtick, "~"}

\* A non-empty line indented to the threshold or beyond, a tab counting as
\* much as the threshold.
CodeLine(l) ==
    \E k \in 1..Len(l) :
        /\ ~isspace(l[k])
        /\ \A j \in 1..(k - 1) : isspace(l[j])
        /\ 4 * Cardinality({j \in 1..(k - 1) : l[j] = "\t"})
             + Cardinality({j \in 1..(k - 1) : l[j] = " "}) >= 4

\* The characters captions are decorated with.
DecorChars == {"#", "*", "\"", "-", ":", " ", "\t"}

\* A file name with a recognized source extension and nothing else.
BareSourceName(c) ==
    /\ \A k \in 1..Len(c) : c[k] \notin DecorChars \cup {"/", "<", ">", backtick, "~"}
    /\ \E ext \in { <<".", "c", "p", "p">>, <<".", "c">>, <<".", "h">>,
                    <<".", "h", "p", "p">> } :
           Len(c) > Len(ext) /\ EndsWith(c, ext)

\* A line that names a source file once its decoration is taken off.
NamesSource(c) ==
    \E a \in 1..Len(c), b \in 1..Len(c) :
        /\ a <= b
        /\ BareSourceName(SubSeq(c, a, b))
        /\ \A k \in 1..Len(c) : (k < a \/ k > b) => c[k] \in DecorChars

\* A line with one indentation unit taken off: a tab, or as many spaces as
\* the threshold; tabs and spaces are compared as spaces.
Unindented(l) ==
    replaceLeadingTabs(IF l[1] = "\t" THEN Tail(l) ELSE SubSeq(l, 5, Len(l)))

\* Every srcfile.open() of the run succeeded.
AllOpensOk == \A k \in 1..Len(attempts) : attempts[k].ok

\* The document lines the run has written to a file.
WrittenLines == UNION {{b.srcs[k] : k \in 1..Len(b.srcs)} : b \in {blocks[n] : n \in 1..Len(blocks)}}

\* d holds one fenced block, lines i to j, under a caption that is a bare
\* source file name, and no other block.
OneFencedBlock(d, i, j) ==
    /\ 1 < i /\ i < j /\ j <= Len(d)
    /\ FenceLine(d[i]) /\ FenceLine(d[j])
    /\ BareSourceName(d[i - 1])
    /\ \A k \in 1..Len(d) : k \notin {i, j} => ~FenceLine(d[k])
    /\ \A k \in 1..Len(d) : (k < i \/ k > j) => ~CodeLine(d[k])

\* C1: a document with exactly one fenced block under a caption naming a
\* source file leaves a file of that name holding exactly the lines between
\* the fences, unmodified.  (Stated for documents without a line of one or
\* two fence characters.)
C1_FencedBlockVerbatim ==
    \A i \in 1..Len(doc), j \in 1..Len(doc) :
        ( /\ pc = "done"
          /\ AllOpensOk
          /\ OneFencedBlock(doc, i, j)
          /\ \A k \in 1..Len(doc) : ~ShortFence(doc[k]) )
        => /\ doc[i - 1] \in DOMAIN disk.files
           /\ disk.files[doc[i - 1]] = SubSeq(doc, i + 1, j - 1)

\* d holds one indented block, lines i to j, right under a caption that is a
\* bare source file name, no other indented line and no delimiter line.
OneIndentedBlock(d, i, j) ==
    /\ 1 < i /\ i <= j /\ j <= Len(d)
    /\ BareSourceName(d[i - 1])
    /\ \A k \in 1..Len(d) : CodeLine(d[k]) <=> (i <= k /\ k <= j)
    /\ \A k \in 1..Len(d) : ~FenceLine(d[k])

\* C2: a document with exactly one indented block right under a filename
\* caption leaves a file of that name holding the block's lines, each with
\* one indentation unit removed, in order, and no other line.
C2_IndentedBlockUnindented ==
    \A i \in 1..Len(doc), j \in 1..Len(doc) :
        ( /\ pc = "done"
          /\ AllOpensOk
          /\ OneIndentedBlock(doc, i, j) )
        => /\ doc[i - 1] \in DOMAIN disk.files
           /\ disk.files[doc[i - 1]] = [k \in 1..(j - i + 1) |-> Unindented(doc[i + k - 1])]

\* C3: a document with no fenced block and no indented block: createProject
\* returns false, makeTree is never called and no file is opened.
C3_NoBlockNoTree ==
    ( /\ \A k \in 1..Len(doc) : ~FenceLine(doc[k]) /\ ~CodeLine(doc[k]) )
    => /\ disk.dirs = {}
       /\ attempts = <<>>
       /\ pc \in {"scan", "done"}
       /\ pc = "done" => result = FALSE

\* C4: a later run on the same document, without overwrite, after a run that
\* created the project: it ends in the project-exists error of makeTree
\* before a directory is created or a file opened, so the disk stays as the
\* earlier run left it.
C4_SecondRunRefused ==
    ( /\ run >= 2
      /\ ~overwrite
      /\ {"root", "src"} \subseteq diskAtStart.dirs )
    => /\ disk = diskAtStart
       /\ attempts = <<>>
       /\ pc \in {"scan", "throw_exists"}

\* C4 happens: the second run is refused and the files of the first are there.
C4_Witness ==
    /\ run = 2
    /\ ~overwrite
    /\ pc = "throw_exists"
    /\ diskAtStart.mdcopy
    /\ \E f \in DOMAIN disk.files : disk.files[f] # <<>>

\* C5: with overwrite set and the project directory, sources directory
\* included, left by an earlier run, makeTree raises no error and the run
\* goes on to write the blocks and the build files.
C5_OverwriteReuses ==
    ( /\ run >= 2
      /\ overwrite
      /\ {"root", "src"} \subseteq diskAtStart.dirs
      /\ pc \in Terminal )
    => /\ pc = "done"
       /\ result => disk.srccmake = <<writeSrcLevel>>

\* C6: an indented run (lines i to j) that is not the first block, under a
\* text line that names no source file, is skipped: none of its lines is
\* written or opens a file.
C6_UncaptionedRunSkipped ==
    \A i \in 1..Len(doc), j \in 1..Len(doc) :
        ( /\ 1 < i /\ i <= j
          /\ \A k \in i..j : CodeLine(doc[k])
          /\ ~CodeLine(doc[i - 1])
          /\ doc[i - 1] # <<>>
          /\ \E k \in 1..Len(doc[i - 1]) : doc[i - 1][k] \notin {"-", " "}
          /\ ~NamesSource(doc[i - 1])
          /\ \A k \in 1..i : ~FenceLine(doc[k])
          /\ \E k \in 1..(i - 2) : CodeLine(doc[k])
          /\ AllOpensOk )
        => /\ \A k \in i..j : k \notin WrittenLines
           /\ \A n \in 1..Len(attempts) : attempts[n].at \notin i..j

\* C9: a fenced block opened by a fence of one character (line i) and closed
\* by a fence of the other (line j): at line j the scanner is outside again
\* and the file holds exactly the lines between.  (Stated for blocks without
\* a line of one or two fence characters.)
C9_MixedFencesOneBlock ==
    \A i \in 1..Len(doc), n \in 1..Len(blocks) :
        ( /\ pos > i
          /\ pc = "scan"
          /\ AllOpensOk
          /\ blocks[n].open = i
          /\ blocks[n].kind = "fenced"
          /\ FenceLine(doc[i]) /\ FenceLine(doc[pos])
          /\ doc[i][1] # doc[pos][1]
          /\ \A k \in (i + 1)..(pos - 1) : ~FenceLine(doc[k]) /\ ~ShortFence(doc[k]) )
        => /\ ~inDelimitedFile /\ ~inIndentedFile
           /\ blocks[n].close = pos
           /\ disk.files[blocks[n].name] = SubSeq(doc, i + 1, pos - 1)

\* C10: when a run has ended normally, every block it opened has its lines
\* in its file: no block is lost or replaced by a later one.  (Stated for
\* documents without a line of one or two fence characters.)
C10_EveryBlockKept ==
    (pc = "done" /\ \A k \in 1..Len(doc) : ~ShortFence(doc[k])) =>
        \A n \in 1..Len(blocks) :
            /\ blocks[n].name \in DOMAIN disk.files
            /\ disk.files[blocks[n].name] = blocks[n].lines

\* How often the sequence sub occurs in seq as consecutive elements.
Occurs(seq, sub) ==
    Cardinality({p \in 1..(Len(seq) - Len(sub) + 1) :
                     SubSeq(seq, p, p + Len(sub) - 1) = sub})

\* How many elements of seq are x.
Count(seq, x) == Cardinality({p \in 1..Len(seq) : seq[p] = x})

\* The statement of row r of the rule table is on document line k.
StatementOn(r, k) == regex_search(replaceLeadingTabs(doc[k]), rules[r].re)

\* C7 as stated: the snippet and the library of every recognized statement
\* on a written line occur exactly once in the text of the sources
\* CMakeLists.txt.
C7_SnippetTextOnce ==
    (pc = "done" /\ result) =>
        \A r \in 1..Len(rules) :
            (\E k \in WrittenLines : StatementOn(r, k))
            => /\ rules[r].cmake # <<>>
                    => Occurs(RuleLines(disk.srccmake[1].rules), rules[r].cmake) = 1
               /\ Occurs(LinkWords(disk.srccmake[1].libs), rules[r].libraries) = 1

\* C7 amended: the snippet and the library of every recognized statement
\* on a written line are each written exactly once by the loops of
\* writeSrcLevel, however many lines and blocks hold the statement.
C7_SnippetWrittenOnce ==
    (pc = "done" /\ result) =>
        \A r \in 1..Len(rules) :
            (\E k \in WrittenLines : StatementOn(r, k))
            => /\ Count(disk.srccmake[1].rules, rules[r].cmake) = 1
               /\ Count(disk.srccmake[1].libs, rules[r].libraries) = 1

\* C7 happens: one statement in two blocks, and twice in one of them.
C7_Witness ==
    /\ pc = "done"
    /\ result
    /\ \E r \in 1..Len(rules) :
           /\ Count(disk.srccmake[1].rules, rules[r].cmake) = 1
           /\ \E m \in 1..Len(blocks), n \in 1..Len(blocks) :
                  /\ m # n
                  /\ \E k \in 1..Len(blocks[m].srcs) : StatementOn(r, blocks[m].srcs[k])
                  /\ Cardinality({k \in 1..Len(blocks[n].srcs) :
                                      StatementOn(r, blocks[n].srcs[k])}) >= 2

\* C8: a caption made of a file name f with a recognized extension and
\* decoration (heading marker, bold markers, quotes, a trailing colon or
\* dash) is stripped to exactly f, and the block opened under it is named f.
C8_DecoratedCaptionNamesBlock ==
    \A f \in BareNames, ks \in DecorSeqs :
        ( /\ Len(doc) >= 2
          /\ doc[1] = Decorate(f, ks)
          /\ attempts # <<>>
          /\ attempts[1].at = 2 )
        => /\ attempts[1].name = f
           /\ pos = 2 => prevline = f

\* C11: the directory tree is made only on a successful open of a block:
\* when this run has created directories, an output file of one of its
\* blocks has been opened successfully.  (Stated for documents without a
\* line of one or two fence characters.)
C11_TreeOnlyWithBlock ==
    ( /\ disk.dirs # diskAtStart.dirs
      /\ \A k \in 1..Len(doc) : ~ShortFence(doc[k]) )
    => \E k \in 1..Len(attempts) : attempts[k].ok

\* Lines i to j of the document are a block, from its opener on: a fenced
\* block with its two fences, or lines of an indented run.
BlockSpan(i, j) ==
    \/ /\ FenceLine(doc[i]) /\ i < j /\ FenceLine(doc[j])
       /\ \A k \in (i + 1)..(j - 1) : ~FenceLine(doc[k])
    \/ /\ i <= j
       /\ \A k \in i..j : CodeLine(doc[k])

\* C12: a block whose file could not be opened is dropped: no second open
\* is attempted on its lines and none of its lines is written to a file.
\* (Stated for documents without a line of one or two fence characters.)
C12_FailedOpenDropsBlock ==
    \A n \in 1..Len(attempts), j \in 1..Len(doc) :
        ( /\ ~attempts[n].ok
          /\ j <= pos
          /\ BlockSpan(attempts[n].at, j)
          /\ \A k \in 1..Len(doc) : ~ShortFence(doc[k]) )
        => /\ \A m \in 1..Len(attempts) :
                  m # n => attempts[m].at \notin attempts[n].at..j
           /\ \A k \in attempts[n].at..j : k \notin WrittenLines

\* C13: at most one block is open: the scanner is never in an indented and
\* in a delimited block at once, and when a file is opened every block
\* opened before it has been closed.
C13_OneBlockOpen ==
    /\ ~(inIndentedFile /\ inDelimitedFile)
    /\ srcfileOpen => (inIndentedFile \/ inDelimitedFile)
    /\ \A n \in 1..Len(blocks), m \in 1..Len(attempts) :
           blocks[n].open < attempts[m].at
           => blocks[n].close \in (blocks[n].open + 1)..(attempts[m].at - 1)

\* C13 happens: a second block is open after the first was closed.
C13_Witness ==
    /\ Len(blocks) = 2
    /\ srcfileOpen
    /\ blocks[1].close # 0
    /\ blocks[1].kind # blocks[2].kind

\* C14: when createProject has returned, the two CMakeLists.txt files and
\* the copy of the document are written exactly when a block's file was
\* opened, and that is also when the result is true.
C14_ArtifactsIffBlock ==
    pc = "done" =>
        LET materialized == \E k \in 1..Len(attempts) : attempts[k].ok
        IN  /\ result <=> materialized
            /\ disk.srccmake # <<>> <=> materialized
            /\ disk.topcmake <=> materialized
            /\ disk.mdcopy <=> materialized

\* C14 happens: a run with a block whose file was opened and one whose open
\* failed returns true with the three files written.
C14_Witness ==
    /\ pc = "done"
    /\ result
    /\ disk.srccmake # <<>> /\ disk.topcmake /\ disk.mdcopy
    /\ \E k \in 1..Len(attempts) : attempts[k].ok
    /\ \E k \in 1..Len(attempts) : ~attempts[k].ok

\* C15: a delimiter line read in a delimited block closes the block; it is
\* not written and the caption candidate stays what it was before the line.
\* (Stated for documents without a line of one or two fence characters.)
C15_ClosingFenceConsumed ==
    [][ ( /\ pc = "scan"
          /\ inDelimitedFile
          /\ pos' = pos + 1
          /\ FenceLine(doc'[pos'])
          /\ \A k \in 1..pos : ~ShortFence(doc[k]) )
        => /\ ~inDelimitedFile' /\ ~inIndentedFile'
           /\ disk' = disk
           /\ prevline' = prevline ]_vars

\* C16: a line is taken as a delimiter exactly when it starts with three or
\* more of one fence character: isDelimited says so of every line read, and
\* every fenced block was opened by such a line.
C16_DelimiterIffThreeFenceChars ==
    /\ \A k \in 1..pos :
           isDelimited(replaceLeadingTabs(doc[k])) <=> FenceLine(doc[k])
    /\ \A n \in 1..Len(blocks) :
           blocks[n].kind = "fenced" => FenceLine(doc[blocks[n].open])

\* The file name a caption candidate names once its decoration is taken off.
BareOf(c) ==
    CHOOSE f \in {SubSeq(c, a, b) : a \in 1..Len(c), b \in 1..Len(c)} :
        \E a \in 1..Len(c), b \in 1..Len(c) :
            /\ a <= b
            /\ f = SubSeq(c, a, b)
            /\ BareSourceName(f)
            /\ \A k \in 1..Len(c) : (k < a \/ k > b) => c[k] \in DecorChars

\* C17: a delimiter line that does not close an open delimited block opens
\* a block, named by the caption candidate when that names a source file
\* and main.cpp otherwise, and the scanner is in a delimited block, when
\* the file can be opened.  (Stated for documents without a line of one or
\* two fence characters.)
C17_FenceAlwaysOpens ==
    [][ ( /\ pc = "scan"
          /\ ~inDelimitedFile
          /\ pos' = pos + 1
          /\ FenceLine(doc'[pos'])
          /\ \A k \in 1..pos : ~ShortFence(doc[k])
          /\ pc' = "scan" )
        => /\ Len(attempts') = Len(attempts) + 1
           /\ attempts'[Len(attempts')].at = pos'
           /\ attempts'[Len(attempts')].name =
                  (IF NamesSource(prevline) THEN BareOf(prevline) ELSE main_cpp)
           /\ attempts'[Len(attempts')].ok
                  => inDelimitedFile' /\ ~inIndentedFile' ]_vars

\* A line of dashes only.
Underline(l) == l # <<>> /\ \A k \in 1..Len(l) : l[k] = "-"

\* C18: outside a block, a line that is neither a delimiter line nor a
\* non-empty indented line leaves the caption candidate alone when it is
\* empty or an underline, and replaces it otherwise.
C18_CandidateIsLastTextLine ==
    [][ ( /\ pc = "scan"
          /\ ~inDelimitedFile /\ ~inIndentedFile
          /\ pos' = pos + 1
          /\ ~FenceLine(doc'[pos'])
          /\ ~CodeLine(doc'[pos']) )
        => /\ prevline' = (IF doc'[pos'] = <<>> \/ Underline(doc'[pos'])
                           THEN prevline ELSE doc'[pos'])
           /\ attempts' = attempts
           /\ ~inDelimitedFile' /\ ~inIndentedFile' ]_vars

\* The lines written so far to the files of this run.
WrittenTexts ==
    UNION {{blocks[n].lines[k] : k \in 1..Len(blocks[n].lines)} : n \in 1..Len(blocks)}

\* The rows of the rule table whose pattern matches a written line.
MatchedRows ==
    {r \in 1..Len(rules) : \E t \in WrittenTexts : regex_search(t, rules[r].re)}

\* C19: after every step the snippets and the libraries accumulated are
\* exactly those of the rows matching a line written so far, every row
\* being tested; lines that are not written add nothing.
C19_SetsAreUnionOverWritten ==
    /\ extraRules = {rules[r].cmake : r \in MatchedRows}
    /\ libraries = {rules[r].libraries : r \in MatchedRows}

\* C19 happens: a written line has put its snippet and library into the
\* sets, and a line with another statement that was read but not written
\* has not.
C19_Witness ==
    /\ extraRules # {}
    /\ libraries # {}
    /\ \E k \in 1..pos, r \in 1..Len(rules) :
           /\ k \notin WrittenLines
           /\ StatementOn(r, k)
           /\ rules[r].cmake \notin extraRules
           /\ rules[r].libraries \notin libraries

\* C20: an indented run, from its first line i on (read outside a block) to
\* a line j, is written as a whole to the file its first line opened, or
\* not at all.  (Stated for documents without a line of one or two fence
\* characters.)
C20_RunAllOrNothing ==
    \A i \in 1..pos, j \in 1..pos :
        ( /\ i <= j
          /\ \A k \in i..j : CodeLine(doc[k])
          /\ i > 1 => ~CodeLine(doc[i - 1])
          /\ \A n \in 1..Len(blocks) :
                 blocks[n].open < i => blocks[n].close \in 1..(i - 1)
          /\ AllOpensOk
          /\ pc \in {"scan", "done"}
          /\ \A k \in 1..Len(doc) : ~ShortFence(doc[k]) )
        => \/ \E n \in 1..Len(blocks) :
                  /\ blocks[n].open = i
                  /\ \A k \in i..j : \E p \in 1..Len(blocks[n].srcs) : blocks[n].srcs[p] = k
           \/ \A k \in i..j : k \notin WrittenLines


====
